---- MODULE Spec2Model ----
(***************************************************************************)
(* A model of pystemd.run (src/pystemd/run.py): the CExit cleanup guard,   *)
(* the pty and terminal set-up, the assembly of the transient unit's       *)
(* properties, the submission, the wait loop and the failure policy.       *)
(*                                                                         *)
(* Python's None is the integer None for descriptors and intervals, and    *)
(* the empty tuple NoneV for the values of unit properties (a value x is   *)
(* the one-element tuple <<x>>).                                           *)
(***************************************************************************)
EXTENDS Integers, Sequences, FiniteSets, TLC

\* ----------------------------------------------------------------- bounds
\* largest exit status the unit's main process may record
MaxStatus == 1
\* largest runtime_max_sec a caller passes
MaxSec == 2
\* most messages queued ahead of the completion signal
MaxBefore == 1

\* -------------------------------------------------------------- constants
None == -1
NoneV == <<>>
\* descriptors: the caller's stdin and stdout, the three possible pty
\* masters (the caller's, os.openpty's, the machine's) and the monitor bus
STDIN_FD == 0
STDOUT_FD == 1
CALLER_MASTER == 5
LOCAL_MASTER == 6
MACHINE_MASTER == 7
MONITOR_FD == 8
MasterFds == {CALLER_MASTER, LOCAL_MASTER, MACHINE_MASTER}
\* _wait_polling in tenths of a second; the user-mode default is 0.5 s
DEFAULT_POLLING == 5
USEC_PER_SEC == 1000000

EXIT_SUBSTATES == {"exited", "failed", "dead"}
UNIT_PATH == "/org/freedesktop/systemd1/unit/u"
UNIT_INTERFACE == "org.freedesktop.systemd1.Unit"
START_JOB == "/org/freedesktop/systemd1/job/1"
OTHER_JOB == "/org/freedesktop/systemd1/job/2"
NO_JOB == "/"
NoPath == ""

\* ------------------------------------------------------------------ state
VARIABLES
    p,                \* the arguments of the call that steer its control flow
    args,             \* the arguments that only feed the unit's properties
    pc,               \* the position of run()
    pipe,             \* ctexit.pipe
    unwind,           \* how many entries of reversed(pipe) __exit__ has taken
    ran,              \* the cleanups executed so far, in order
    pty_master,       \* run()'s local pty_master
    pty_path,         \* run()'s local pty_path (NoPath when None)
    closes,           \* per master descriptor, the os.close calls made on it
    termAttrs,        \* the terminal attributes of stdin
    stdin_attrs,      \* run()'s local stdin_attrs (None before tcgetattr)
    selectors,        \* run()'s local selectors
    monbus,           \* the monitor connection: "none", "open", "closed"
    unit_properties,  \* run()'s local unit_properties
    submitted,        \* what StartTransientUnit received (NoneV before)
    unit_start_job,   \* run()'s local unit_start_job ("" before)
    loop,             \* "IDLE", "RUNNING", "COMPLETED"
    ready,            \* _in of the current iteration
    m,                \* the message pulled in the current iteration, if any
    unit,             \* the unit as systemd reports it: [pid, status]
    exc,              \* the exception in flight
    result,           \* what the call gave its caller: [kind, exc]
    obs,              \* what the call did, for the properties below
    inbox             \* the messages queued on the monitor connection

vars == <<p, args, pc, pipe, unwind, ran, pty_master, pty_path, closes,
          termAttrs, stdin_attrs, selectors, monbus, unit_properties,
          submitted, unit_start_job, loop, ready, m, unit, exc,
          result, obs, inbox>>

\* ---------------------------------------------------------------- helpers
Range(s) == {s[i] : i \in 1..Len(s)}

\* Python truthiness of None / a number
Truthy(x) == x # None /\ x # 0

\* list.remove(x): drops the first occurrence
RECURSIVE Remove(_, _)
Remove(s, x) ==
    IF s = <<>> THEN <<>>
    ELSE IF Head(s) = x THEN Tail(s)
    ELSE <<Head(s)>> \o Remove(Tail(s), x)

NoExc == [type |-> "none", at |-> "none", cmd |-> <<>>, status |-> 0]
Raise(type, at) == [type |-> type, at |-> at, cmd |-> <<>>, status |-> 0]

\* ------------------------------------------------------------------ CExit
\* register(): one more (call, args) at the end of the pipe
Register(pp, call, arg) == Append(pp, [call |-> call, arg |-> arg])

\* a guard that walks the pipe in registration order
ForwardPipe(pp) == pp

\* reversed(self.pipe): the order __exit__ walks the pipe in
ReversedPipe(pp) == [i \in 1..Len(pp) |-> pp[Len(pp) + 1 - i]]


\* an __exit__ that returns a true value: the exception is swallowed
OutcomeSwallowed(e) == [kind |-> "unit", exc |-> NoExc]

\* __exit__(*excargs) returns None: the exception in flight is not
\* swallowed, so the call ends with it; without one it returns the unit
Outcome(e) ==
    IF e.type = "none" THEN [kind |-> "unit", exc |-> NoExc]
    ELSE [kind |-> "exception", exc |-> e]

\* ------------------------------------------------------------- parameters
\* lines 177-178: user mode always polls
EffectivePolling(user_mode, wp) ==
    IF user_mode THEN (IF Truthy(wp) THEN wp ELSE DEFAULT_POLLING) ELSE wp

Polling == EffectivePolling(p.user_mode, p.wait_polling)

\* line 204 / 213: None not in (stdin, pty_master)
BothPresent(fd, master) == fd # None /\ master # None

\* tty.setraw: clears the line-discipline bits (ICANON = 1, ECHO = 2) and
\* keeps the rest of the attributes
SetRaw(a) == (a \div 4) * 4

\* a snapshot taken after tty.setraw instead of before it
RestoreAfter(before, after) == after

\* line 208: the attributes handed to the restoring tcsetattr are the ones
\* read before tty.setraw ran
RestoreArg(before, after) == before

\* lines 264-275: the match string, by the fields it fixes
Mstr(path) ==
    [type |-> "signal", sender |-> "org.freedesktop.systemd1", path |-> path,
     interface |-> "org.freedesktop.DBus.Properties",
     member |-> "PropertiesChanged"]

\* a run that never opens the monitor connection
NoMonitor(wait) == FALSE

\* line 263: the monitor connection is opened only when waiting
NeedsMonitor(wait) == wait

\* a loop entered whatever wait is
LoopAlways(wait) == TRUE

\* line 291: while wait
LoopEntered(wait) == wait

\* ------------------------------------------------------- unit properties
\* a merge in which the keys already set win
UpdateKeep(d, other) ==
    [k \in DOMAIN d \cup DOMAIN other |->
        IF k \in DOMAIN d THEN d[k] ELSE other[k]]

\* dict.update(other): other wins on every key it has
Update(d, other) ==
    [k \in DOMAIN d \cup DOMAIN other |->
        IF k \in DOMAIN other THEN other[k] ELSE d[k]]

\* line 260: the keys whose value is None are dropped
DropNone(d) ==
    LET keep == {k \in DOMAIN d : d[k] # NoneV} IN [k \in keep |-> d[k]]

\* line 163: (runtime_max_sec or 0) * 10**6 or runtime_max_sec
RuntimeMaxUsec(sec) ==
    LET n == IF sec # NoneV /\ sec[1] # 0 THEN sec[1] ELSE 0
        prod == n * USEC_PER_SEC
    IN  IF prod # 0 THEN <<prod>> ELSE sec

\* lines 195-202 and 224-234: where the standard streams go (stderr is
\* routed like stdout and takes no part in the rest of run(): left out)
IoRouting(path, stdin, stdout) ==
    IF path # NoPath
    THEN [k \in {"StandardInput", "StandardOutput", "StandardError"} |->
             <<"tty">>] @@ [k \in {"TTYPath"} |-> <<path>>]
    ELSE [k \in {"StandardInputFileDescriptor"} |->
             IF stdin = None THEN NoneV ELSE <<stdin>>]
         @@ [k \in {"StandardOutputFileDescriptor"} |->
             IF stdout = None THEN NoneV ELSE <<stdout>>]

\* pystemd.utils.x2cmdlist(cmd, False): nothing for no command, else the
\* one entry (path, argv, ignore_failure) that systemd takes
X2cmdlist(cmd) ==
    IF cmd = <<>> THEN <<>>
    ELSE <<[path |-> cmd[1], argv |-> cmd, ignore |-> FALSE]>>

ExecKeys ==
    {"ExecStart", "ExecStop", "ExecStopPost", "ExecStartPre", "ExecStartPost"}

\* extra.pop(key, []): the list extra holds under key, [] without one
PopValue(extra, key) == IF key \in DOMAIN extra THEN extra[key][1] ELSE <<>>

\* an extra that keeps the keys read from it
KeptExtra(extra) == extra

\* lines 171-175: extra after the five pops
PoppedExtra(extra) == [k \in DOMAIN extra \ ExecKeys |-> extra[k]]

\* lines 171-175: the caller's command, then the list of extra
CmdList(caller, extra, key) == X2cmdlist(caller) \o PopValue(extra, key)

\* a list kept as it is, empty or not
AlwaysSome(list) == <<list>>

\* lines 240-255: list or None
OrNone(list) == IF list = <<>> THEN NoneV ELSE <<list>>

\* the names an env mapping has; env is the sequence of its (name, value)
\* items in insertion order
EnvNames(env) == {env[i][1] : i \in 1..Len(env)}

\* lines 213-215: with a pty forwarded to stdout, TERM of the calling
\* process is added unless the caller's env has one (term is "" when the
\* calling process has no TERM)
EnvWithTerm(env, out, term) ==
    IF out /\ term # "" /\ "TERM" \notin EnvNames(env)
    THEN Append(env, <<"TERM", term>>)
    ELSE env

\* lines 251-254: one NAME=VALUE entry per item, as the pair (NAME, VALUE)
EnvEntries(env) == [i \in 1..Len(env) |-> <<env[i][1], env[i][2]>>]

\* lines 236-257: the fields run() sets itself (Type, Description,
\* CollectMode, WorkingDirectory, User and Nice are passed through as
\* given and are left out)
BuiltIn(a, env) ==
    [k \in {"ExecStartPre"} |->
        OrNone(CmdList(a.start_pre_cmd, a.extra, "ExecStartPre"))]
    @@ [k \in {"ExecStart"} |-> <<CmdList(a.cmd, a.extra, "ExecStart")>>]
    @@ [k \in {"ExecStartPost"} |->
        OrNone(CmdList(a.start_post_cmd, a.extra, "ExecStartPost"))]
    @@ [k \in {"ExecStop"} |-> OrNone(CmdList(a.stop_cmd, a.extra, "ExecStop"))]
    @@ [k \in {"ExecStopPost"} |->
        OrNone(CmdList(a.stop_post_cmd, a.extra, "ExecStopPost"))]
    @@ [k \in {"RemainAfterExit"} |-> <<a.remain_after_exit>>]
    @@ [k \in {"RuntimeMaxUSec"} |-> RuntimeMaxUsec(a.runtime_max_sec)]
    @@ [k \in {"Environment"} |-> OrNone(EnvEntries(env))]

\* lines 236-260: the built-in fields, then what is left of the caller's
\* extra, then the None values dropped
FinalProperties(props, a, env) ==
    DropNone(Update(Update(props, BuiltIn(a, env)), PoppedExtra(a.extra)))

\* --------------------------------------------------------------- messages
Messages ==
    [empty : {FALSE},
     path : {UNIT_PATH, "/other"},
     iface : {UNIT_INTERFACE, "org.freedesktop.systemd1.Service"},
     job : {"absent", START_JOB, OTHER_JOB},
     sub : {"absent", "running", "exited", "failed", "dead"}]
    \cup
    [empty : {TRUE}, path : {""}, iface : {""}, job : {"absent"},
     sub : {"absent"}]

\* line 317: m.body[1].get(b"Job", (0, b"/"))[1]
JobPath(msg) == IF msg.job = "absent" THEN NO_JOB ELSE msg.job

\* a completion test that does not look at the job of the message
CompletesAnyJob(msg, path, start_job) ==
    /\ msg.path = path
    /\ msg.iface = UNIT_INTERFACE
    /\ msg.sub \in EXIT_SUBSTATES

\* lines 313-322: the decoded message ends the wait
Completes(msg, path, start_job) ==
    /\ msg.path = path
    /\ msg.iface = UNIT_INTERFACE
    /\ JobPath(msg) # start_job
    /\ msg.sub \in EXIT_SUBSTATES

\* the message systemd sends on the unit's path once the unit has
\* stopped: the unit interface, an exit sub-state, and never the start job
CompletionSignal(msg) ==
    /\ ~msg.empty
    /\ msg.path = UNIT_PATH
    /\ msg.iface = UNIT_INTERFACE
    /\ msg.sub \in EXIT_SUBSTATES
    /\ msg.job \in {"absent", OTHER_JOB}

\* The traffic of the monitor connection. inbox = ANY_TRAFFIC leaves it
\* open: the descriptor is ready or not and any message can be pulled.
\* Otherwise inbox counts the queued messages, the last of which is a
\* completion signal: the descriptor is ready exactly while inbox > 0
\* (select is level-triggered) and each process() pulls the oldest one.
ANY_TRAFFIC == -1

\* line 292: what select can report for the monitor descriptor
MonitorReadiness(in) ==
    inbox = ANY_TRAFFIC \/ (MONITOR_FD \in in <=> inbox > 0)

\* line 308: what monbus.process() can pull
Pulled(msg) ==
    CASE inbox = ANY_TRAFFIC -> TRUE
      [] inbox = 1 -> CompletionSignal(msg)
      [] OTHER -> ~CompletionSignal(msg)

\* a fallback that consults the main pid whatever select returned
PollIgnoresReady(polling, in) == Truthy(polling)

\* line 325: the main pid is consulted only after a timeout of a
\* configured poll interval
PollConsults(polling, in) == Truthy(polling) /\ in = {}

\* a failure policy that does not look at raise_on_fail
ShouldRaiseAnyway(raise_on_fail, status) == status # 0

\* lines 330-331: the failure policy
ShouldRaise(raise_on_fail, status) == raise_on_fail /\ status # 0


\* ------------------------------------------------------------------- Init
\* the calls: machine only matters to the pty (it is FALSE without one),
\* and pty=True ignores pty_path (it is None with one)
Params ==
    {q \in [wait : BOOLEAN, raise_on_fail : BOOLEAN, pty : BOOLEAN,
            machine : BOOLEAN,
            pty_master : {None, CALLER_MASTER},
            pty_path : {NoPath, "/dev/pts/0"},
            stdin : {None, STDIN_FD}, stdout : {None, STDOUT_FD},
            user_mode : BOOLEAN, wait_polling : {None, 0, 2}] :
        /\ ~q.pty => ~q.machine
        /\ q.pty => q.pty_path = NoPath}

\* the terminal attributes stdin may have when run() is called
InitialAttrs == {3, 7}

DefaultArgs ==
    [cmd |-> <<"/bin/true">>, stop_cmd |-> <<>>, stop_post_cmd |-> <<>>,
     start_pre_cmd |-> <<>>, start_post_cmd |-> <<>>,
     runtime_max_sec |-> NoneV, extra |-> <<>>, env |-> <<>>, term |-> "",
     remain_after_exit |-> FALSE]

NoObs ==
    [looped |-> FALSE, via |-> "none",
     monOpened |-> FALSE, filter |-> <<>>, delivered |-> 0,
     statusAtCheck |-> None, attrsBefore |-> None, created |-> None]

InitWith(params, a, box) ==
    /\ p = params
    /\ args = a
    /\ pc = "enter"
    /\ pipe = <<>>
    /\ unwind = 0
    /\ ran = <<>>
    /\ pty_master = params.pty_master
    /\ pty_path = params.pty_path
    /\ closes = [fd \in MasterFds |-> 0]
    /\ termAttrs \in InitialAttrs
    /\ stdin_attrs = None
    /\ selectors = <<>>
    /\ monbus = "none"
    /\ unit_properties = <<>>
    /\ submitted = NoneV
    /\ unit_start_job = ""
    /\ loop = "IDLE"
    /\ ready = {}
    /\ m = <<>>
    /\ unit = [pid |-> 0, status |-> 0]
    /\ exc = NoExc
    /\ result = [kind |-> "none", exc |-> NoExc]
    /\ obs = NoObs
    /\ inbox = box

\* the calls of the whole run: the default arguments, with
\* remain_after_exit either way
ArgsRun == {[DefaultArgs EXCEPT !.remain_after_exit = r] : r \in BOOLEAN}

Init == \E params \in Params, a \in ArgsRun : InitWith(params, a, ANY_TRAFFIC)

\* ---------------------------------------------------------------- actions
\* an exception leaves the body of the with statement: __exit__ runs next
Fail(type, at) ==
    /\ exc' = Raise(type, at)
    /\ pc' = "exit"

\* line 180: with CExit() as ctexit, bus_factory() as bus, SDManager(...)
Enter ==
    /\ pc = "enter"
    /\ \/ /\ pc' = "pty"
          /\ exc' = exc
       \/ Fail("DBusError", "bus_factory")
    /\ UNCHANGED <<p, args, inbox, pipe, unwind, ran, pty_master, pty_path, closes,
                   termAttrs, stdin_attrs, selectors, monbus,
                   unit_properties, submitted, unit_start_job, loop, ready,
                   m, unit, result, obs>>

\* lines 182-189: if pty: a master from the machine, or from os.openpty
OpenPty ==
    /\ pc = "pty"
    /\ \/ /\ ~p.pty
          /\ pc' = "tty"
          /\ UNCHANGED <<pty_master, pty_path, pipe, exc, obs>>
       \/ /\ p.pty /\ p.machine
          /\ pty_master' = MACHINE_MASTER
          /\ pty_path' = "/dev/pts/2"
          /\ obs' = [obs EXCEPT !.created = MACHINE_MASTER]
          /\ pc' = "tty"
          /\ UNCHANGED <<pipe, exc>>
       \/ /\ p.pty /\ p.machine
          /\ Fail("DBusError", "OpenPTY")
          /\ UNCHANGED <<pty_master, pty_path, pipe, obs>>
       \/ /\ p.pty /\ ~p.machine
          /\ pty_master' = LOCAL_MASTER
          /\ pty_path' = "/dev/pts/1"
          /\ pipe' = Register(pipe, "os.close", LOCAL_MASTER)
          /\ obs' = [obs EXCEPT !.created = LOCAL_MASTER]
          /\ pc' = "tty"
          /\ exc' = exc
       \/ /\ p.pty /\ ~p.machine
          /\ Fail("OSError", "openpty")
          /\ UNCHANGED <<pty_master, pty_path, pipe, obs>>
    /\ UNCHANGED <<p, args, inbox, unwind, ran, closes, termAttrs, stdin_attrs,
                   selectors, monbus, unit_properties, submitted,
                   unit_start_job, loop, ready, m, unit, result>>

\* lines 191-234: the routing of the standard streams, the raw mode of
\* stdin and the window size of the master
SetupTty ==
    /\ pc = "tty"
    /\ LET raw == pty_path # NoPath /\ BothPresent(p.stdin, pty_master)
           out == pty_path # NoPath /\ BothPresent(p.stdout, pty_master)
           before == termAttrs
           after == SetRaw(termAttrs)
           pipe1 == IF raw
                    THEN Register(pipe, "tcsetattr", RestoreArg(before, after))
                    ELSE pipe
           sel1 == IF raw THEN Append(selectors, p.stdin) ELSE selectors
           sel2 == IF out THEN Append(sel1, pty_master) ELSE sel1
           switch == /\ termAttrs' = after
                     /\ stdin_attrs' = before
                     /\ pipe' = pipe1
                     /\ obs' = [obs EXCEPT !.attrsBefore = before]
           noswitch == UNCHANGED <<termAttrs, stdin_attrs, pipe, obs>>
       IN  /\ unit_properties' = IoRouting(pty_path, p.stdin, p.stdout)
           /\ \/ \* tty.tcgetattr(stdin) fails: stdin is not a terminal
                 /\ raw
                 /\ Fail("termios.error", "tcgetattr")
                 /\ noswitch
                 /\ UNCHANGED selectors
              \/ \* the ioctl on stdout or on the master fails
                 /\ out
                 /\ IF raw THEN switch ELSE noswitch
                 /\ selectors' = sel2
                 /\ Fail("OSError", "ioctl")
              \/ /\ IF raw THEN switch ELSE noswitch
                 /\ selectors' = sel2
                 /\ pc' = "props"
                 /\ exc' = exc
    /\ UNCHANGED <<p, args, inbox, unwind, ran, pty_master, pty_path, closes,
                   monbus, submitted, unit_start_job, loop, ready, m, unit, result>>

\* lines 236-260: the unit's properties (with line 215, which only feeds
\* them)
BuildProperties ==
    /\ pc = "props"
    /\ unit_properties' =
           FinalProperties(
               unit_properties, args,
               EnvWithTerm(args.env,
                           pty_path # NoPath /\ BothPresent(p.stdout, pty_master),
                           args.term))
    /\ pc' = "unit"
    /\ UNCHANGED <<p, args, inbox, pipe, unwind, ran, pty_master, pty_path, closes,
                   termAttrs, stdin_attrs, selectors, monbus, submitted,
                   unit_start_job, loop, ready, m, unit, exc, result,
                   obs>>

\* line 262: Unit(name, bus=bus, _autoload=True)
LoadUnit ==
    /\ pc = "unit"
    /\ \/ /\ pc' = IF NeedsMonitor(p.wait) THEN "monitor" ELSE "submit"
          /\ exc' = exc
       \/ Fail("DBusError", "Unit")
    /\ UNCHANGED <<p, args, inbox, pipe, unwind, ran, pty_master, pty_path, closes,
                   termAttrs, stdin_attrs, selectors, monbus,
                   unit_properties, submitted, unit_start_job, loop, ready,
                   m, unit, result, obs>>

\* lines 263-284: the monitor connection
OpenMonitor ==
    /\ pc = "monitor"
    /\ \/ /\ Fail("DBusError", "monbus.open")
          /\ UNCHANGED <<monbus, pipe, selectors, obs>>
       \/ /\ monbus' = "open"
          /\ pipe' = Register(pipe, "monbus.close", None)
          /\ obs' = [obs EXCEPT !.monOpened = TRUE]
          /\ Fail("DBusError", "BecomeMonitor")
          /\ UNCHANGED selectors
       \/ /\ monbus' = "open"
          /\ pipe' = Register(pipe, "monbus.close", None)
          /\ obs' = [obs EXCEPT !.monOpened = TRUE,
                                !.filter = <<Mstr(UNIT_PATH)>>]
          /\ selectors' = Append(selectors, MONITOR_FD)
          /\ pc' = "submit"
          /\ exc' = exc
    /\ UNCHANGED <<p, args, inbox, unwind, ran, pty_master, pty_path, closes,
                   termAttrs, stdin_attrs, unit_properties, submitted,
                   unit_start_job, loop, ready, m, unit, result>>

\* lines 287-291: StartTransientUnit, then the loop if waiting
Submit ==
    /\ pc = "submit"
    /\ \/ /\ submitted' = <<unit_properties>>
          /\ unit_start_job' = START_JOB
          /\ unit' = [pid |-> 1, status |-> 0]
          /\ loop' = IF LoopEntered(p.wait) THEN "RUNNING" ELSE loop
          /\ pc' = IF LoopEntered(p.wait) THEN "select" ELSE "check"
          /\ exc' = exc
       \/ /\ Fail("DBusError", "StartTransientUnit")
          /\ UNCHANGED <<submitted, unit_start_job, unit, loop>>
    /\ UNCHANGED <<p, args, inbox, pipe, unwind, ran, pty_master, pty_path, closes,
                   termAttrs, stdin_attrs, selectors, monbus,
                   unit_properties, ready, m, result, obs>>


\* line 292: select.select(selectors, [], [], _wait_polling); without a
\* timeout it returns only once a descriptor is ready
Select ==
    /\ pc = "select"
    /\ \E in \in SUBSET Range(selectors) :
          /\ in # {} \/ Polling # None
          /\ MonitorReadiness(in)
          /\ ready' = in
    /\ m' = <<>>
    /\ obs' = [obs EXCEPT !.looped = TRUE]
    /\ pc' = "stdin"
    /\ UNCHANGED <<p, args, inbox, pipe, unwind, ran, pty_master, pty_path, closes,
                   termAttrs, stdin_attrs, selectors, monbus,
                   unit_properties, submitted, unit_start_job, loop, unit,
                   exc, result>>

\* an exception leaves the loop: its locals _in and m go with it
LoopFail(type, at) ==
    /\ Fail(type, at)
    /\ ready' = {}
    /\ m' = <<>>

\* lines 294-296: stdin to the master
ForwardStdin ==
    /\ pc = "stdin"
    /\ \/ /\ p.stdin \notin ready
          /\ pc' = "master"
          /\ UNCHANGED <<exc, obs, ready, m>>
       \/ /\ p.stdin \in ready
          /\ pc' = "master"
          /\ UNCHANGED <<exc, obs, ready, m>>
       \/ /\ p.stdin \in ready
          /\ LoopFail("OSError", "os.read(stdin)")
          /\ obs' = obs
       \/ /\ p.stdin \in ready
          /\ LoopFail("OSError", "os.write(pty_master)")
          /\ obs' = obs
    /\ UNCHANGED <<p, args, inbox, pipe, unwind, ran, pty_master, pty_path, closes,
                   termAttrs, stdin_attrs, selectors, monbus,
                   unit_properties, submitted, unit_start_job, loop, unit, result>>

\* a failed read that starts the next iteration at once
SkipAfterDrop == "select"

\* lines 301-303: the except branch ends and the iteration goes on with
\* the monitor descriptor
NextAfterDrop == "message"

\* lines 298-305: the master to stdout; a failed read drops the master
ForwardMaster ==
    /\ pc = "master"
    /\ \/ /\ pty_master \notin ready
          /\ pc' = "message"
          /\ UNCHANGED <<selectors, exc, obs, ready, m>>
       \/ /\ pty_master \in ready
          /\ selectors' = Remove(selectors, pty_master)
          /\ pc' = NextAfterDrop
          /\ UNCHANGED <<exc, obs, ready, m>>
       \/ /\ pty_master \in ready
          /\ pc' = "message"
          /\ UNCHANGED <<selectors, exc, obs, ready, m>>
       \/ /\ pty_master \in ready
          /\ LoopFail("OSError", "os.write(stdout)")
          /\ UNCHANGED <<selectors, obs>>
    /\ UNCHANGED <<p, args, inbox, pipe, unwind, ran, pty_master, pty_path, closes,
                   termAttrs, stdin_attrs, monbus, unit_properties,
                   submitted, unit_start_job, loop, unit, result>>

\* lines 307-323: one message of the monitor connection
ProcessMonitor ==
    /\ pc = "message"
    /\ \/ /\ MONITOR_FD \notin ready
          /\ pc' = "poll"
          /\ UNCHANGED <<m, ready, loop, exc, obs, inbox>>
       \/ /\ MONITOR_FD \in ready
          /\ LoopFail("DBusError", "monbus.process")
          /\ UNCHANGED <<loop, obs, inbox>>
       \/ /\ MONITOR_FD \in ready
          /\ inbox' = IF inbox = ANY_TRAFFIC THEN inbox ELSE inbox - 1
          /\ \E msg \in Messages :
                /\ Pulled(msg)
                /\ m' = <<msg>>
                /\ IF msg.empty
                   THEN \* continue
                        /\ pc' = "select"
                        /\ UNCHANGED <<loop, obs>>
                   ELSE IF Completes(msg, UNIT_PATH, unit_start_job)
                   THEN \* break
                        /\ loop' = "COMPLETED"
                        /\ obs' = [obs EXCEPT !.via = "signal"]
                        /\ pc' = "check"
                   ELSE /\ pc' = "poll"
                        /\ UNCHANGED <<loop, obs>>
          /\ UNCHANGED <<exc, ready>>
    /\ UNCHANGED <<p, args, pipe, unwind, ran, pty_master, pty_path, closes,
                   termAttrs, stdin_attrs, selectors, monbus,
                   unit_properties, submitted, unit_start_job, unit,
                   result>>

\* lines 325-328: the polling fallback
PollMainPID ==
    /\ pc = "poll"
    /\ \/ /\ ~PollConsults(Polling, ready)
          /\ pc' = "select"
          /\ UNCHANGED <<loop, exc, obs, ready, m>>
       \/ /\ PollConsults(Polling, ready)
          /\ LoopFail("DBusError", "MainPID")
          /\ UNCHANGED <<loop, obs>>
       \/ /\ PollConsults(Polling, ready)
          /\ IF unit.pid = 0
             THEN /\ loop' = "COMPLETED"
                  /\ obs' = [obs EXCEPT !.via = "poll"]
                  /\ pc' = "check"
             ELSE /\ pc' = "select"
                  /\ UNCHANGED <<loop, obs>>
          /\ UNCHANGED <<exc, ready, m>>
    /\ UNCHANGED <<p, args, inbox, pipe, unwind, ran, pty_master, pty_path, closes,
                   termAttrs, stdin_attrs, selectors, monbus,
                   unit_properties, submitted, unit_start_job, unit,
                   result>>

\* lines 330-336: the failure policy; the loop's locals are dead by now
CheckFail ==
    /\ pc = "check"
    /\ ready' = {}
    /\ m' = <<>>
    /\ \/ \* reading unit.Service.ExecMainStatus fails
          /\ p.raise_on_fail
          /\ Fail("DBusError", "ExecMainStatus")
          /\ obs' = obs
       \/ /\ obs' = [obs EXCEPT !.statusAtCheck = unit.status]
          /\ IF ShouldRaise(p.raise_on_fail, unit.status)
             THEN /\ exc' = [type |-> "PystemdRunError", at |-> "check",
                             cmd |-> args.cmd, status |-> unit.status]
                  /\ pc' = "exit"
             ELSE /\ pc' = "load"
                  /\ exc' = exc
    /\ UNCHANGED <<p, args, inbox, pipe, unwind, ran, pty_master, pty_path, closes,
                   termAttrs, stdin_attrs, selectors, monbus,
                   unit_properties, submitted, unit_start_job, loop, unit, result>>

\* lines 338-340: unit.load(); return unit
ReturnUnit ==
    /\ pc = "load"
    /\ \/ /\ pc' = "exit"
          /\ exc' = exc
       \/ Fail("DBusError", "unit.load")
    /\ UNCHANGED <<p, args, inbox, pipe, unwind, ran, pty_master, pty_path, closes,
                   termAttrs, stdin_attrs, selectors, monbus,
                   unit_properties, submitted, unit_start_job, loop, ready,
                   m, unit, result, obs>>

\* lines 37-39: __exit__ calls the next entry of reversed(self.pipe)
Unwind ==
    /\ pc = "exit"
    /\ unwind < Len(pipe)
    /\ LET c == ReversedPipe(pipe)[unwind + 1] IN
          /\ ran' = Append(ran, c)
          /\ closes' = IF c.call = "os.close"
                       THEN [closes EXCEPT ![c.arg] = @ + 1] ELSE closes
          /\ termAttrs' = IF c.call = "tcsetattr" THEN c.arg ELSE termAttrs
          /\ monbus' = IF c.call = "monbus.close" THEN "closed" ELSE monbus
    /\ unwind' = unwind + 1
    /\ UNCHANGED <<p, args, inbox, pc, pipe, pty_master, pty_path, stdin_attrs,
                   selectors, unit_properties, submitted, unit_start_job,
                   loop, ready, m, unit, exc, result, obs>>

\* the with statement is left: the call returns or the exception goes on
Leave ==
    /\ pc = "exit"
    /\ unwind = Len(pipe)
    /\ result' = Outcome(exc)
    /\ pc' = "done"
    /\ UNCHANGED <<p, args, inbox, pipe, unwind, ran, pty_master, pty_path, closes,
                   termAttrs, stdin_attrs, selectors, monbus,
                   unit_properties, submitted, unit_start_job, loop, ready,
                   m, unit, exc, obs>>

\* the environment: the unit's main process ends and its status is recorded
UnitExits ==
    /\ submitted # NoneV
    /\ unit.pid # 0
    /\ pc \notin {"exit", "done"}
    /\ \E s \in 0..MaxStatus : unit' = [pid |-> 0, status |-> s]
    /\ UNCHANGED <<p, args, inbox, pc, pipe, unwind, ran, pty_master, pty_path,
                   closes, termAttrs, stdin_attrs, selectors, monbus,
                   unit_properties, submitted, unit_start_job, loop, ready,
                   m, exc, result, obs>>

Next ==
    \/ Enter \/ OpenPty \/ SetupTty \/ BuildProperties \/ LoadUnit
    \/ OpenMonitor \/ Submit \/ Select \/ ForwardStdin \/ ForwardMaster
    \/ ProcessMonitor \/ PollMainPID \/ CheckFail \/ ReturnUnit
    \/ Unwind \/ Leave \/ UnitExits

Spec == Init /\ [][Next]_vars

\* ------------------------------------------------- cleanups that raise
\* The registered calls are os.close, tty.tcsetattr and monbus.close, and
\* each of them can raise. Spec is the run whose cleanups complete;
\* SpecRaise adds the ones that do not.
CleanupCalls == {"os.close", "tcsetattr", "monbus.close"}

\* the exception a registered call raises
CleanupError(call) ==
    Raise(IF call = "monbus.close" THEN "DBusError" ELSE "OSError", call)

\* lines 37-39: call(*args, **kwargs) raises inside the for loop of
\* __exit__: nothing catches it, so the loop ends there, the call has had
\* no effect and the new exception leaves the with statement
UnwindRaises ==
    /\ pc = "exit"
    /\ unwind < Len(pipe)
    /\ exc' = CleanupError(ReversedPipe(pipe)[unwind + 1].call)
    /\ result' = Outcome(exc')
    /\ pc' = "done"
    /\ UNCHANGED <<p, args, inbox, pipe, unwind, ran, pty_master, pty_path, closes,
                   termAttrs, stdin_attrs, selectors, monbus,
                   unit_properties, submitted, unit_start_job, loop, ready,
                   m, unit, obs>>

NextRaise == Next \/ UnwindRaises

SpecRaise == Init /\ [][NextRaise]_vars

\* ------------------------------------------------------ the wait, timed
\* Whether the wait ends depends on what reaches the loop and when. Here
\* the monitor connection is silent until systemd sends the completion
\* signal, with up to MaxBefore other messages queued ahead of it.
\* the waiting calls that leave the pty to run(): no pty, a local one or
\* one of a machine
ParamsLive ==
    {q \in Params : q.wait /\ q.pty_master = None /\ q.pty_path = NoPath}

InitLive == \E params \in ParamsLive : InitWith(params, DefaultArgs, 0)

\* the environment: the completion signal reaches the monitor connection
\* while the loop runs, behind n - 1 other messages
DeliverCompletion ==
    /\ pc \in {"select", "stdin", "master", "message", "poll"}
    /\ inbox = 0
    /\ obs.delivered = 0
    /\ \E n \in 1..(MaxBefore + 1) :
          /\ inbox' = n
          /\ obs' = [obs EXCEPT !.delivered = n]
    /\ UNCHANGED <<p, args, pc, pipe, unwind, ran, pty_master, pty_path,
                   closes, termAttrs, stdin_attrs, selectors, monbus,
                   unit_properties, submitted, unit_start_job, loop, ready,
                   m, unit, exc, result>>

NextLive == Next \/ DeliverCompletion

\* run() is one thread: it always takes its next step
Program ==
    \/ Enter \/ OpenPty \/ SetupTty \/ BuildProperties \/ LoadUnit
    \/ OpenMonitor \/ Submit \/ ForwardStdin \/ ForwardMaster
    \/ ProcessMonitor \/ PollMainPID \/ CheckFail \/ ReturnUnit
    \/ Unwind \/ Leave

\* line 292: select returns when its timeout runs out or when the monitor
\* descriptor has a message; otherwise it may block for ever
SelectReturns == Select /\ (Polling # None \/ inbox > 0)

SpecLive ==
    InitLive /\ [][NextLive]_vars /\ WF_vars(Program) /\ WF_vars(SelectReturns)


\* ------------------------------------------------ the unit's properties
\* The assembly of the properties does not depend on the wait loop: it is
\* explored on calls that do not wait, up to the submission, over three
\* families of arguments: the run time limit and its override in extra,
\* the five commands and their lists in extra, and the environment with
\* the TERM of the calling process.
SecValues == {NoneV} \cup {<<n>> : n \in 0..MaxSec}

ExtraValues ==
    {<<>>} \cup
    {[k \in {"RuntimeMaxUSec"} |-> v] : v \in {NoneV, <<5>>, <<USEC_PER_SEC>>}}

\* the calls that vary the run time limit
ArgsRuntime ==
    {[DefaultArgs EXCEPT !.runtime_max_sec = sec, !.extra = ex] :
        sec \in SecValues, ex \in ExtraValues}

\* a command, or none, for each of the four optional command parameters
CmdValues(name) == {<<>>, <<name, "arg">>}

\* the command list extra holds under a key
ExtraCmd(key) == <<[path |-> "/extra", argv |-> <<"/extra", key>>, ignore |-> FALSE]>>

\* the extra mappings over the five command keys: each key absent or
\* holding one command
ExtraCmds ==
    {[k \in ks |-> <<ExtraCmd(k)>>] : ks \in SUBSET ExecKeys}

\* the calls that vary the commands
ArgsCmds ==
    {[DefaultArgs EXCEPT !.stop_cmd = c1, !.stop_post_cmd = c2,
                         !.start_pre_cmd = c3, !.start_post_cmd = c4,
                         !.extra = ex] :
        c1 \in CmdValues("/bin/stop"), c2 \in CmdValues("/bin/stop-post"),
        c3 \in CmdValues("/bin/pre"), c4 \in CmdValues("/bin/post"),
        ex \in ExtraCmds}

\* the calls that vary the environment and the TERM of the calling process
ArgsEnv ==
    {[DefaultArgs EXCEPT !.env = e, !.term = t, !.remain_after_exit = r] :
        e \in {<<>>, <<<<"A", "1">>>>, <<<<"TERM", "vt100">>>>},
        t \in {"", "xterm"}, r \in BOOLEAN}

ArgsProps == ArgsRuntime \cup ArgsCmds \cup ArgsEnv

ParamsProps ==
    {q \in Params : /\ ~q.wait /\ ~q.raise_on_fail
                    /\ ~q.user_mode /\ q.wait_polling = None}

InitProps ==
    \E params \in ParamsProps : \E a \in ArgsProps :
        InitWith(params, a, ANY_TRAFFIC)

NextProps ==
    \/ Enter \/ OpenPty \/ SetupTty \/ BuildProperties \/ LoadUnit \/ Submit

SpecProps == InitProps /\ [][NextProps]_vars


\* ============================================================ properties
LoopPcs == {"select", "stdin", "master", "message", "poll"}

C3_Condition(msg) ==
    /\ ~msg.empty
    /\ msg.path = UNIT_PATH
    /\ msg.iface = "org.freedesktop.systemd1.Unit"
    /\ (IF msg.job = "absent" THEN "/" ELSE msg.job) # unit_start_job
    /\ msg.sub \in {"exited", "failed", "dead"}

\* C3: a message pulled from the monitor connection moves the loop from
\* RUNNING to COMPLETED exactly when it is non-empty, for the unit's path
\* and interface, of a job other than the start job, and with substate
\* exited, failed or dead; any other message leaves the loop RUNNING.
C3_MessageCompletesIff ==
    m # <<>> =>
        /\ C3_Condition(m[1]) => (loop = "COMPLETED" /\ obs.via = "signal")
        /\ ~C3_Condition(m[1]) => loop = "RUNNING"

\* a matching message with substate dead has completed the loop
C3_Witness ==
    /\ m # <<>>
    /\ m[1].sub = "dead"
    /\ m[1].job = OTHER_JOB
    /\ loop = "COMPLETED"

\* C4: the loop completes through the polling fallback only when a poll
\* interval is configured, select returned nothing ready and the unit's main
\* pid is zero; without a poll interval the main pid never completes it.
C4_PollCompletesOnlyOnTimeout ==
    obs.via = "poll" =>
        /\ p.user_mode \/ p.wait_polling \notin {None, 0}
        /\ ready = {}
        /\ unit.pid = 0
        /\ loop = "COMPLETED"

\* the fallback has just completed the loop
C4_Witness ==
    /\ pc = "check"
    /\ obs.via = "poll"
    /\ loop = "COMPLETED"

C6_NoRunErrorWithoutWait ==
    ~p.wait => exc.type # "PystemdRunError"

\* C7: a call with wait=False and no pty executes no step of the wait loop
\* and opens no monitor connection, and the unit it returns was submitted.
C7_NoLoopWithoutWait ==
    (~p.wait /\ ~p.pty) =>
        /\ pc \notin LoopPcs
        /\ ~obs.looped
        /\ loop = "IDLE"
        /\ ~obs.monOpened /\ monbus = "none"
        /\ MONITOR_FD \notin Range(selectors)
        /\ result.kind = "unit" => submitted # NoneV

\* a call with wait=False and no pty has returned its unit
C7_Witness ==
    /\ pc = "done"
    /\ ~p.wait /\ ~p.pty
    /\ result.kind = "unit"
    /\ submitted # NoneV

\* C8: when run() is left, a master the call obtained itself has been
\* closed exactly once, and a master the caller supplied has not been closed.
C8_OwnMasterClosedOnce ==
    pc = "done" =>
        /\ obs.created # None => closes[obs.created] = 1
        /\ closes[CALLER_MASTER] = 0

\* the calls of the bus and unit layer that run() makes
BusCalls ==
    {"bus_factory", "OpenPTY", "Unit", "monbus.open", "BecomeMonitor",
     "StartTransientUnit", "monbus.process", "MainPID", "ExecMainStatus",
     "unit.load"}

C10_SecondsBeforeOverride ==
    submitted # NoneV =>
        LET props == submitted[1]
            sec == args.runtime_max_sec
            ex == args.extra
            key == "RuntimeMaxUSec"
        IN  IF sec # NoneV /\ sec[1] # 0
            THEN key \in DOMAIN props /\ props[key] = <<sec[1] * 1000000>>
            ELSE IF key \in DOMAIN ex /\ ex[key] # NoneV
            THEN key \in DOMAIN props /\ props[key] = ex[key]
            ELSE key \notin DOMAIN props

\* C10, amended: RuntimeMaxUSec of the submitted unit is the RuntimeMaxUSec
\* entry of extra whenever extra has one (absent when that entry is None),
\* whatever seconds is; without such an entry it is seconds x 10^6 when
\* seconds is given (0 gives 0) and absent when seconds is None.
C10_OverrideBeforeSeconds ==
    submitted # NoneV =>
        LET props == submitted[1]
            sec == args.runtime_max_sec
            ex == args.extra
            key == "RuntimeMaxUSec"
        IN  IF key \in DOMAIN ex
            THEN IF ex[key] = NoneV
                 THEN key \notin DOMAIN props
                 ELSE key \in DOMAIN props /\ props[key] = ex[key]
            ELSE IF sec # NoneV
            THEN key \in DOMAIN props /\ props[key] = <<sec[1] * 1000000>>
            ELSE key \notin DOMAIN props

\* seconds and a different raw override were both given, and submitted
C10_Witness ==
    /\ submitted # NoneV
    /\ args.runtime_max_sec = <<2>>
    /\ "RuntimeMaxUSec" \in DOMAIN args.extra
    /\ args.extra["RuntimeMaxUSec"] = <<5>>
    /\ submitted[1]["RuntimeMaxUSec"] = <<5>>

\* the caller's parameter behind each command property
CallerCmd(a, key) ==
    CASE key = "ExecStart" -> a.cmd
      [] key = "ExecStop" -> a.stop_cmd
      [] key = "ExecStopPost" -> a.stop_post_cmd
      [] key = "ExecStartPre" -> a.start_pre_cmd
      [] key = "ExecStartPost" -> a.start_post_cmd

\* C11: for each of the five command parameters, the property of the
\* submitted unit is the caller's command list followed by the list extra
\* holds under the same key, and the entry of extra never replaces it (the
\* four optional properties are left out when that list is empty).
C11_CallerThenExtra ==
    submitted # NoneV =>
        \A key \in ExecKeys :
            LET props == submitted[1]
                own == X2cmdlist(CallerCmd(args, key))
                more == IF key \in DOMAIN args.extra
                        THEN args.extra[key][1] ELSE <<>>
            IN  IF key = "ExecStart" \/ own \o more # <<>>
                THEN key \in DOMAIN props /\ props[key] = <<own \o more>>
                ELSE key \notin DOMAIN props

\* a stop command of the caller and an ExecStop list of extra were both
\* given, and the unit was submitted with the two in that order
C11_Witness ==
    /\ submitted # NoneV
    /\ args.stop_cmd # <<>>
    /\ "ExecStop" \in DOMAIN args.extra
    /\ "ExecStart" \in DOMAIN args.extra
    /\ Len(submitted[1]["ExecStop"][1]) = 2
    /\ submitted[1]["ExecStop"][1][2] = ExtraCmd("ExecStop")[1]

\* a pty is forwarded to stdout and the calling process has a TERM
TermForwarded ==
    /\ pty_path # NoPath
    /\ BothPresent(p.stdout, pty_master)
    /\ args.term # ""

\* C12 as stated: with an empty or missing env, the submitted unit has no
\* Environment property, for every combination of the other parameters.
C12_NoEnvironmentWithoutEnv ==
    (submitted # NoneV /\ args.env = <<>> /\ "Environment" \notin DOMAIN args.extra)
        => "Environment" \notin DOMAIN submitted[1]

\* C12, amended: with an empty or missing env (and no Environment entry in
\* extra), the submitted unit has no Environment property, never an empty
\* list, unless a pty is forwarded to stdout and the calling process has a
\* TERM: then Environment is the one entry TERM=<that value>.
C12_NoEnvironmentUnlessTerm ==
    (submitted # NoneV /\ args.env = <<>> /\ "Environment" \notin DOMAIN args.extra)
        => IF TermForwarded
           THEN /\ "Environment" \in DOMAIN submitted[1]
                /\ submitted[1]["Environment"] = << << <<"TERM", args.term>> >> >>
           ELSE "Environment" \notin DOMAIN submitted[1]

\* submitted with no env and no TERM to forward although the calling
\* process has one: no pty path, so no Environment
C12_Witness ==
    /\ submitted # NoneV
    /\ args.env = <<>>
    /\ args.term # ""
    /\ ~TermForwarded
    /\ "Environment" \notin DOMAIN submitted[1]

\* C13: run() returns the unit when remain_after_exit is true and None
\* when it is false.
C13_UnitOnlyWhenRemaining ==
    (pc = "done" /\ result.kind # "exception") =>
        (result.kind = "unit" <=> args.remain_after_exit)

\* the closure of the monitor connection is in the guard's pipe
CloseRegistered == \E i \in 1..Len(pipe) : pipe[i].call = "monbus.close"

\* C14: when wait is true, the step that submits the unit starts from a
\* state where the monitor connection is open, its closure is registered
\* with the guard and it is subscribed to the filter for the unit's path.
C14_MonitorReadyBeforeSubmit ==
    [][(p.wait /\ submitted = NoneV /\ submitted' # NoneV) =>
          /\ monbus = "open"
          /\ obs.monOpened
          /\ CloseRegistered
          /\ obs.filter = <<Mstr(UNIT_PATH)>>]_vars

\* a waiting call has submitted its unit with the monitor subscribed
C14_Witness ==
    /\ p.wait
    /\ submitted # NoneV
    /\ pc = "select"
    /\ obs.filter = <<Mstr(UNIT_PATH)>>
    /\ CloseRegistered

\* the read of the ready master failed in the iteration under way
DroppedNow ==
    /\ pc \in LoopPcs \cup {"check"}
    /\ pty_master \in ready
    /\ pty_master \notin Range(selectors)

\* C15: when the read of the ready master fails, nothing is raised: the
\* master leaves the active set, the other descriptors stay in it, the loop
\* stays RUNNING, and a monitor descriptor the same select reported ready
\* still has its message processed in that iteration.
C15_ReadFailureOnlyDropsMaster ==
    /\ (DroppedNow /\ pc = "message") =>
          /\ exc = NoExc
          /\ loop = "RUNNING"
          /\ (ready \ {pty_master}) \subseteq Range(selectors)
          /\ MONITOR_FD \in Range(selectors)
    /\ (DroppedNow /\ pc # "message" /\ MONITOR_FD \in ready) => m # <<>>

\* the master was dropped and the monitor's completion message, ready in
\* the same iteration, ended the loop
C15_Witness ==
    /\ DroppedNow
    /\ MONITOR_FD \in ready
    /\ pc = "check"
    /\ loop = "COMPLETED"
    /\ obs.via = "signal"

\* the master was in the active set and a failed read removed it
MasterDropped ==
    /\ pc \in LoopPcs
    /\ pty_path # NoPath
    /\ BothPresent(p.stdout, pty_master)
    /\ pty_master \notin Range(selectors)

\* C18: once a failed read has removed the master from the active set, no
\* step of the loop reads or writes the master again, so a ready stdin
\* cannot raise an I/O error out of run() through it.
C18_NoMasterIoAfterDrop ==
    [][(MasterDropped /\ pc = "stdin" /\ p.stdin \in ready) =>
          ~(pc' = "master" \/ exc'.at = "os.write(pty_master)")]_vars

\* C19: when a cleanup raises while the guard unwinds, the cleanups
\* registered before it have all run by the time run() is left.
C19_EarlierCleanupsStillRun ==
    (pc = "done" /\ exc.at \in CleanupCalls) =>
        \A i \in 1..(Len(pipe) - unwind - 1) :
            \E j \in 1..Len(ran) : ran[j] = pipe[i]

\* C16: waiting with a poll interval configured, once the unit's main pid
\* reads zero the loop reaches COMPLETED (or an error of a collaborator's
\* call ends the wait), whatever select reports for stdin and the master.
C16_PollingEndsTheWait ==
    (p.wait /\ Truthy(Polling) /\ pc \in LoopPcs /\ unit.pid = 0)
        ~> (loop = "COMPLETED" \/ exc # NoExc)

\* the master was in the active set and is no longer
WasDropped ==
    /\ pty_path # NoPath
    /\ BothPresent(p.stdout, pty_master)
    /\ pty_master \notin Range(selectors)

\* C17: when a completion signal has been delivered to the monitor
\* connection during the wait, the wait does not end without the loop
\* having reached COMPLETED, whatever was queued ahead of the signal and
\* however stdin and the master became ready; a failing call of a
\* collaborator ends the wait with its error, which is no doing of the
\* loop, unless it is the write on a master the loop has already dropped.
C17_DeliveredSignalCompletes ==
    (obs.delivered > 0 /\ pc \in {"exit", "done"}) =>
        \/ loop = "COMPLETED"
        \/ exc # NoExc /\ ~(exc.at = "os.write(pty_master)" /\ WasDropped)

====
